---- MODULE Spec2Model ----
(***************************************************************************)
(* yt-summarize.py: URL -> video id -> title -> transcript -> summary ->   *)
(* Obsidian note.  One sequential pipeline; every remote call is a single  *)
(* blocking call whose outcome is chosen by the environment.               *)
(*                                                                         *)
(* Text (Python str) is a sequence of one-character strings, so that       *)
(* slicing, searching, joining and stripping are computed on characters.   *)
(***************************************************************************)
EXTENDS Integers, Sequences, FiniteSets, TLC

VARIABLES
    argv,                \* the command line handed to argparse
    env,                 \* os.environ: the three OBSIDIAN_* variables
    args,                \* argparse namespace: url, no_obsidian
    pc,                  \* the statement of main() that runs next, or "exit"
    exit_code,           \* process exit status; -1 while the process runs
    video_id,
    title,
    transcript,
    summary,
    stdout,              \* what was printed to sys.stdout, in order
    stderr,              \* what was printed to sys.stderr, in order
    started,             \* the functions main() has called, in order
    returned,            \* the functions that returned normally to main()
    calls,               \* remote calls issued, in order
    oembed,              \* outcome of the metadata GET
    youtube,             \* what the transcript service answered
    selected,            \* the caption track fetch_transcript settled on
    completion_request,  \* transcript text embedded in the completion prompt
    put_request,         \* the PUT issued to the document store
    put_outcome          \* outcome of that PUT

vars == <<argv, env, args, pc, exit_code, video_id, title, transcript, summary,
          stdout, stderr, started, returned, calls, oembed, youtube, selected,
          completion_request, put_request, put_outcome>>

-----------------------------------------------------------------------------
(* Bounds of the model *)

\* longest caption-track enumeration the transcript service answers with
MaxTracks == 2

\* transcript lengths are taken this far on either side of max_chars
Slack == 3

-----------------------------------------------------------------------------
(* Text helpers *)

Min(S) == CHOOSE x \in S : \A y \in S : x <= y

Max(S) == CHOOSE x \in S : \A y \in S : x >= y

Range(s) == {s[i] : i \in 1..Len(s)}

\* s[i:i+len(lit)] == lit
HasAt(s, i, lit) ==
    /\ i >= 1
    /\ i + Len(lit) - 1 <= Len(s)
    /\ \A k \in 1..Len(lit) : s[i + k - 1] = lit[k]

RECURSIVE Ascending(_)
\* the elements of a finite set of numbers, smallest first
Ascending(S) ==
    IF S = {} THEN <<>> ELSE <<Min(S)>> \o Ascending(S \ {Min(S)})

\* The transcript and the prompt text can run to 150,000 characters.  The
\* state holds them run-length encoded, as <<character, count>> pairs; every
\* operation of the program is computed on the characters (unpack) and only
\* its result is stored encoded (pack).  unpack(pack(t)) = t.
pack(text) ==
    LET first == {i \in 1..Len(text) : i = 1 \/ text[i] # text[i - 1]}
        at == Ascending(first)
    IN  [k \in 1..Len(at) |->
            <<text[at[k]],
              (IF k < Len(at) THEN at[k + 1] ELSE Len(text) + 1) - at[k]>>]

RECURSIVE unpack(_)
unpack(runs) ==
    IF Len(runs) = 0 THEN <<>>
    ELSE LET c == runs[1][1]
         IN  [i \in 1..runs[1][2] |-> c] \o unpack(Tail(runs))

Lower == {"a", "b", "c", "d", "e", "f", "g", "h", "i", "j", "k", "l", "m",
          "n", "o", "p", "q", "r", "s", "t", "u", "v", "w", "x", "y", "z"}

Upper == {"A", "B", "C", "D", "E", "F", "G", "H", "I", "J", "K", "L", "M",
          "N", "O", "P", "Q", "R", "S", "T", "U", "V", "W", "X", "Y", "Z"}

Digits == {"0", "1", "2", "3", "4", "5", "6", "7", "8", "9"}

\* the character class [a-zA-Z0-9_-]
IdChars == Lower \cup Upper \cup Digits \cup {"_", "-"}

\* the repetition count {11} of every pattern
id_len == 11

-----------------------------------------------------------------------------
(* extract_video_id *)

YOUTU_BE == <<"y", "o", "u", "t", "u", ".", "b", "e", "/">>

YOUTUBE_WATCH == <<"y", "o", "u", "t", "u", "b", "e", ".", "c", "o", "m", "/", "w", "a", "t", "c", "h", "?">>

YOUTUBE_EMBED == <<"y", "o", "u", "t", "u", "b", "e", ".", "c", "o", "m", "/", "e", "m", "b", "e", "d", "/">>

YOUTUBE_V == <<"y", "o", "u", "t", "u", "b", "e", ".", "c", "o", "m", "/", "v", "/">>

YOUTUBE_SHORTS == <<"y", "o", "u", "t", "u", "b", "e", ".", "c", "o", "m", "/", "s", "h", "o", "r", "t", "s", "/">>

V_EQ == <<"v", "=">>

\* re.search found nothing
NoMatch == <<>>

\* [a-zA-Z0-9_-]{11} matches at position k
IsIdAt(s, k) ==
    /\ k >= 1
    /\ k + id_len - 1 <= Len(s)
    /\ \A n \in k..(k + id_len - 1) : s[n] \in IdChars

\* re.search(r"(?:<lit>)([a-zA-Z0-9_-]{11})", url): group(1) of the leftmost
\* match, NoMatch without one
SearchPrefixed(lit, url) ==
    LET starts == {i \in 1..Len(url) :
                      HasAt(url, i, lit) /\ IsIdAt(url, i + Len(lit))}
    IN  IF starts = {} THEN NoMatch
        ELSE LET k == Min(starts) + Len(lit)
             IN  SubSeq(url, k, k + id_len - 1)

\* re.search(r"(?:youtube\.com/watch\?.*v=)([a-zA-Z0-9_-]{11})", url): the
\* leftmost start; ".*" is greedy and does not cross a newline, so the last
\* "v=" followed by eleven id characters is the one captured
SearchWatch(url) ==
    LET from(i) == i + Len(YOUTUBE_WATCH)
        ends(i) == {j \in from(i)..Len(url) :
                       /\ HasAt(url, j, V_EQ)
                       /\ IsIdAt(url, j + Len(V_EQ))
                       /\ \A k \in from(i)..(j - 1) : url[k] # "\n"}
        starts == {i \in 1..Len(url) :
                      HasAt(url, i, YOUTUBE_WATCH) /\ ends(i) # {}}
    IN  IF starts = {} THEN NoMatch
        ELSE LET k == Max(ends(Min(starts))) + Len(V_EQ)
             IN  SubSeq(url, k, k + id_len - 1)

\* the patterns tried from the last to the first
patterns_reversed ==
    << [kind |-> "prefixed", lit |-> YOUTUBE_SHORTS],
       [kind |-> "prefixed", lit |-> YOUTUBE_V],
       [kind |-> "prefixed", lit |-> YOUTUBE_EMBED],
       [kind |-> "watch",    lit |-> YOUTUBE_WATCH],
       [kind |-> "prefixed", lit |-> YOUTU_BE] >>

\* the list `patterns`, in its order
patterns ==
    << [kind |-> "prefixed", lit |-> YOUTU_BE],
       [kind |-> "watch",    lit |-> YOUTUBE_WATCH],
       [kind |-> "prefixed", lit |-> YOUTUBE_EMBED],
       [kind |-> "prefixed", lit |-> YOUTUBE_V],
       [kind |-> "prefixed", lit |-> YOUTUBE_SHORTS] >>

Search(pattern, url) ==
    IF pattern.kind = "watch" THEN SearchWatch(url)
    ELSE SearchPrefixed(pattern.lit, url)

\* for pattern in patterns: match = re.search(...); if match: return group(1)
FirstMatch(url) ==
    LET hits == {n \in 1..Len(patterns) : Search(patterns[n], url) # NoMatch}
    IN  IF hits = {} THEN NoMatch ELSE Search(patterns[Min(hits)], url)

\* re.fullmatch(r"[a-zA-Z0-9_-]{11}", url)
FullMatchId(url) == Len(url) = id_len /\ IsIdAt(url, 1)

\* the value returned, or ok = FALSE where the function prints and exits
extract_video_id(url) ==
    IF FirstMatch(url) # NoMatch THEN [ok |-> TRUE, id |-> FirstMatch(url)]
    ELSE IF FullMatchId(url) THEN [ok |-> TRUE, id |-> url]
    ELSE [ok |-> FALSE, id |-> <<>>]

-----------------------------------------------------------------------------
(* urllib.request.urlopen *)

\* an opener without HTTPErrorProcessor: every response is handed back
urlopen_returns_any(outcome) == outcome.kind = "response"

\* An outcome of urlopen is a transport error (URLError, ssl.SSLError, ...)
\* or the final response with its status.  urlopen hands a response to its
\* caller only for a status 200..299: for every other status the opener's
\* HTTPErrorProcessor raises HTTPError (a redirect of a PUT is not followed).
urlopen_returns(outcome) ==
    /\ outcome.kind = "response"
    /\ outcome.status >= 200
    /\ outcome.status < 300

-----------------------------------------------------------------------------
(* fetch_video_title *)

\* a handler that falls back to an empty title
fetch_video_title_blank(vid, outcome) ==
    IF urlopen_returns(outcome) /\ outcome.json_ok /\ outcome.has_title
    THEN outcome.title
    ELSE <<>>

\* json.loads(resp.read())["title"] inside try / except Exception
fetch_video_title(vid, outcome) ==
    IF /\ urlopen_returns(outcome)
       /\ outcome.json_ok          \* json.loads does not raise
       /\ outcome.has_title        \* data["title"] does not raise
    THEN outcome.title
    ELSE vid

-----------------------------------------------------------------------------
(* fetch_transcript *)

RECURSIVE Join(_)
\* " ".join(texts)
Join(texts) ==
    IF Len(texts) = 0 THEN <<>>
    ELSE IF Len(texts) = 1 THEN texts[1]
    ELSE texts[1] \o <<" ">> \o Join(Tail(texts))

EN == <<"e", "n">>

\* the text the service returns for a snippet of a track translated to English
TranslateText(text) == <<"[", "e", "n", "]">> \o text

\* transcript_list.find_manually_created_transcript(["en"]): the index of the
\* track, 0 where the call raises NoTranscriptFound
find_manually_created_transcript(tracks) ==
    LET found == {i \in 1..Len(tracks) :
                     ~tracks[i].is_generated /\ tracks[i].language_code = EN}
    IN  IF found = {} THEN 0 ELSE Min(found)

\* transcript_list.find_generated_transcript(["en"])
find_generated_transcript(tracks) ==
    LET found == {i \in 1..Len(tracks) :
                     tracks[i].is_generated /\ tracks[i].language_code = EN}
    IN  IF found = {} THEN 0 ELSE Min(found)

\* transcript.translate("en"): a track in English that delivers the
\* translation of this one
translate(track) ==
    [track EXCEPT !.language_code = EN,
                  !.translation_of = track.language_code]

\* no track was settled on
NoTrack == [ok |-> FALSE, how |-> "none", index |-> 0]

\* the chain with its first two lookups exchanged
select_transcript_generated_first(tracks) ==
    IF find_generated_transcript(tracks) # 0
    THEN [ok |-> TRUE, how |-> "generated",
          index |-> find_generated_transcript(tracks)]
    ELSE IF find_manually_created_transcript(tracks) # 0
    THEN [ok |-> TRUE, how |-> "manual",
          index |-> find_manually_created_transcript(tracks)]
    ELSE IF Len(tracks) = 0 THEN NoTrack
    ELSE IF ~tracks[1].is_translatable THEN NoTrack
    ELSE [ok |-> TRUE, how |-> "translated", index |-> 1]

\* the try / except chain of lines 54-63: which track `transcript` is bound
\* to, or ok = FALSE where the chain raises into the outer handler
select_transcript(tracks) ==
    IF find_manually_created_transcript(tracks) # 0
    THEN [ok |-> TRUE, how |-> "manual",
          index |-> find_manually_created_transcript(tracks)]
    ELSE IF find_generated_transcript(tracks) # 0
    THEN [ok |-> TRUE, how |-> "generated",
          index |-> find_generated_transcript(tracks)]
    ELSE IF Len(tracks) = 0                     \* next(iter(...)): StopIteration
    THEN NoTrack
    ELSE IF ~tracks[1].is_translatable          \* translate("en") raises
    THEN NoTrack
    ELSE [ok |-> TRUE, how |-> "translated", index |-> 1]

\* the Transcript object bound to `transcript` at line 65
bound_track(tracks, sel) ==
    IF sel.how = "translated" THEN translate(tracks[sel.index])
    ELSE tracks[sel.index]

\* whether entries = transcript.fetch() is reached
fetch_attempted(world) == world.list_ok /\ select_transcript(world.tracks).ok

Snippet(text, at) == [text |-> text, start |-> at]

\* what each caption track of the video says
SnippetsOf(code, generated) ==
    IF code = EN /\ ~generated
    THEN << Snippet(<<"H", "e", "l", "l", "o">>, 0),
            Snippet(<<"w", "o", "r", "l", "d">>, 2),
            Snippet(<<"!">>, 5) >>
    ELSE IF code = EN
    THEN << Snippet(<<"h", "i">>, 0), Snippet(<<"y", "o", "u">>, 3) >>
    ELSE IF ~generated
    THEN << Snippet(<<"H", "a", "l", "l", "o">>, 0),
            Snippet(<<"W", "e", "l", "t">>, 2) >>
    ELSE << >>

\* entries = transcript.fetch(): the snippets of the track, translated where
\* the track is a translation
fetch(track) ==
    IF track.translation_of = <<>>
    THEN SnippetsOf(track.language_code, track.is_generated)
    ELSE LET source == SnippetsOf(track.translation_of, track.is_generated)
         IN  [i \in 1..Len(source) |->
                 [source[i] EXCEPT !.text = TranslateText(@)]]

\* the text returned, or ok = FALSE where the function prints and exits
fetch_transcript(world) ==
    IF ~world.list_ok THEN [ok |-> FALSE, text |-> <<>>]
    ELSE LET sel == select_transcript(world.tracks)
         IN  IF ~sel.ok THEN [ok |-> FALSE, text |-> <<>>]
             ELSE LET track == bound_track(world.tracks, sel)
                  IN  IF ~track.fetch_ok THEN [ok |-> FALSE, text |-> <<>>]
                      ELSE [ok |-> TRUE,
                            text |-> Join([i \in 1..Len(fetch(track)) |->
                                              fetch(track)[i].text])]

-----------------------------------------------------------------------------
(* summarize *)

max_chars == 100000

TRUNCATED_MARKER == <<"\n", "[", "t", "r", "a", "n", "s", "c", "r", "i", "p", "t", " ", "t", "r", "u", "n", "c", "a", "t", "e", "d", "]">>

\* the comparison written >= : a transcript of exactly max_chars is cut
truncate_inclusive(text) ==
    IF Len(text) >= max_chars
    THEN SubSeq(text, 1, max_chars) \o TRUNCATED_MARKER
    ELSE text

\* the text embedded after "TRANSCRIPT:\n" in the prompt
truncate(text) ==
    IF Len(text) > max_chars
    THEN SubSeq(text, 1, max_chars) \o TRUNCATED_MARKER
    ELSE text

\* message.content[0].text: ok = FALSE where create() raises (authentication,
\* network, quota), content is empty (IndexError) or its first block is not a
\* text block (AttributeError)
first_text(outcome) ==
    IF /\ outcome.kind = "response"
       /\ Len(outcome.content) > 0
       /\ outcome.content[1].type = "text"
    THEN [ok |-> TRUE, text |-> outcome.content[1].text]
    ELSE [ok |-> FALSE, text |-> ""]

-----------------------------------------------------------------------------
(* send_to_obsidian *)

\* the character class [\\/:*?"<>|]
Forbidden == {"\\", "/", ":", "*", "?", "\"", "<", ">", "|"}

\* what str.strip() removes
Whitespace == {" ", "\t", "\n", "\r", "\f"}

\* re.sub(r'[\\/:*?"<>|]', "-", text)
sub_forbidden(text) ==
    [i \in 1..Len(text) |-> IF text[i] \in Forbidden THEN "-" ELSE text[i]]

\* text.strip()
strip(text) ==
    LET kept == {i \in 1..Len(text) : text[i] \notin Whitespace}
    IN  IF kept = {} THEN <<>> ELSE SubSeq(text, Min(kept), Max(kept))

\* the substitution without the .strip()
safe_title_unstripped(text) == sub_forbidden(text)

\* re.sub(r'[\\/:*?"<>|]', "-", title).strip()
safe_title(text) == strip(sub_forbidden(text))

MD == <<".", "m", "d">>

\* f"{folder}/{safe_title}.md"
note_path(folder, text) == folder \o <<"/">> \o safe_title(text) \o MD

DEFAULT_PORT == <<"2", "7", "1", "2", "4">>

DEFAULT_FOLDER == <<"t", "r", "a", "n", "s", "c", "r", "i", "p", "t", "s", "/", "v", "i", "d", "e", "o", "s">>

\* os.environ.get(name) / os.environ.get(name, default)
getenv(var, default) == IF var.set THEN var.value ELSE default

\* int(text) does not raise ValueError
is_int(text) == Len(text) > 0 /\ \A i \in 1..Len(text) : text[i] \in Digits

\* the characters urllib's quote(..., safe="/") leaves as they are
Unreserved == Lower \cup Upper \cup Digits \cup {"_", ".", "-", "~", "/"}

\* the %XX escape of a character outside Unreserved
PercentCode(c) ==
    CASE c = " "  -> <<"%", "2", "0">>
      [] c = "\t" -> <<"%", "0", "9">>
      [] c = "\n" -> <<"%", "0", "A">>
      [] c = "\r" -> <<"%", "0", "D">>
      [] c = "\f" -> <<"%", "0", "C">>
      [] c = "!"  -> <<"%", "2", "1">>
      [] c = "&"  -> <<"%", "2", "6">>
      [] c = "="  -> <<"%", "3", "D">>
      [] OTHER    -> <<"%", "?", "?">>

RECURSIVE quote(_)
\* urllib.request.quote(text, safe="/")
quote(text) ==
    IF Len(text) = 0 THEN <<>>
    ELSE (IF Head(text) \in Unreserved THEN <<Head(text)>>
          ELSE PercentCode(Head(text))) \o quote(Tail(text))

\* the Request built at lines 124-139
put_request_for(e, ttl, vid, smry) ==
    LET path == note_path(getenv(e.folder, DEFAULT_FOLDER), ttl)
    IN  [method  |-> "PUT",
         port    |-> getenv(e.port, DEFAULT_PORT),
         path    |-> path,
         url     |-> <<"/", "v", "a", "u", "l", "t", "/">> \o quote(path),
         bearer  |-> e.api_key.value,
         content |-> [source |-> vid, type |-> "youtube-summary", body |-> smry]]

NoRequest ==
    [method |-> "none", port |-> <<>>, path |-> <<>>, url |-> <<>>,
     bearer |-> <<>>,
     content |-> [source |-> <<>>, type |-> "", body |-> ""]]

-----------------------------------------------------------------------------
(* main: the order of its statements *)

\* main() with the publisher called before the summary is printed
main_body_publish_first ==
    << "parse_args", "extract_video_id", "fetch_video_title",
       "fetch_transcript", "summarize", "send_to_obsidian", "print_summary" >>

\* main() with the transcript fetched before the title
main_body_transcript_first ==
    << "parse_args", "extract_video_id", "fetch_transcript",
       "fetch_video_title", "summarize", "print_summary", "send_to_obsidian" >>

\* the calls of main(), lines 154-169, in program order
main_body ==
    << "parse_args", "extract_video_id", "fetch_video_title",
       "fetch_transcript", "summarize", "print_summary", "send_to_obsidian" >>

\* the flag tested the wrong way round: `if args.no_obsidian`
After_flag_inverted(stmt, ns) ==
    LET here == Min({k \in 1..Len(main_body) : main_body[k] = stmt})
        rest == {k \in (here + 1)..Len(main_body) :
                    ~(main_body[k] = "send_to_obsidian" /\ ~ns.no_obsidian)}
    IN  IF rest = {} THEN "exit" ELSE main_body[Min(rest)]

\* the publisher called whatever the flag says
After_always_publish(stmt, ns) ==
    LET here == Min({k \in 1..Len(main_body) : main_body[k] = stmt})
    IN  IF here = Len(main_body) THEN "exit" ELSE main_body[here + 1]

\* the statement main() runs once `stmt` has returned; "exit" after the last.
\* send_to_obsidian is under `if not args.no_obsidian`
After(stmt, ns) ==
    LET here == Min({k \in 1..Len(main_body) : main_body[k] = stmt})
        rest == {k \in (here + 1)..Len(main_body) :
                    ~(main_body[k] = "send_to_obsidian" /\ ns.no_obsidian)}
    IN  IF rest = {} THEN "exit" ELSE main_body[Min(rest)]

\* falling off the end of main() ends the process with status 0
CodeAt(stmt) == IF stmt = "exit" THEN 0 ELSE -1

-----------------------------------------------------------------------------
(* Inputs *)

HTTPS_WWW == <<"h", "t", "t", "p", "s", ":", "/", "/", "w", "w", "w", ".">>

WATCH_V == YOUTUBE_WATCH \o V_EQ

ID_A == <<"d", "Q", "w", "4", "w", "9", "W", "g", "X", "c", "Q">>

ID_B == <<"a", "-", "b", "_", "c", "1", "D", "2", "e", "3", "F">>

NOT_A_URL == <<"h", "e", "l", "l", "o">>

\* command lines of the pipeline runs
MainUrls == {HTTPS_WWW \o WATCH_V \o ID_A, ID_B, NOT_A_URL}

Argvs ==
    {[help |-> h, positionals |-> p, no_obsidian |-> n] :
        h \in BOOLEAN, n \in BOOLEAN,
        p \in {<<>>} \cup {<<u>> : u \in MainUrls} \cup {<<ID_A, ID_B>>}}

Unset == [set |-> FALSE, value |-> <<>>]

Set(text) == [set |-> TRUE, value |-> text]

Envs ==
    [api_key : {Unset, Set(<<>>), Set(<<"k", "e", "y">>)},
     port    : {Unset, Set(<<"8", "0", "8", "0">>), Set(<<"a", "b", "c">>)},
     folder  : {Unset, Set(<<"n", "o", "t", "e", "s">>)}]

T_TEST == <<"M", "y", ":", " ", "V", "i", "d", "e", "o", "?", " ", "<", "T", "e", "s", "t", ">">>

T_PADDED == <<" ", "\t", "a", "|", " ", "b", "\n", " ">>

T_ALL_FORBIDDEN == <<"\\", "/", ":", "*", "?", "\"", "<", ">", "|">>

T_BLANK == <<" ", "\n", " ">>

T_PLAIN == <<"P", "l", "a", "i", "n">>

Titles == {T_TEST, T_PADDED, T_ALL_FORBIDDEN, T_BLANK, T_PLAIN}

TransportError ==
    [kind |-> "error", status |-> 0, json_ok |-> FALSE, has_title |-> FALSE,
     title |-> <<>>]

Response(st, js, ht, tt) ==
    [kind |-> "response", status |-> st, json_ok |-> js, has_title |-> ht,
     title |-> tt]

\* outcomes of the metadata GET: the final status and what the body holds
OembedOutcomes ==
    {TransportError}
    \cup {Response(200, TRUE, TRUE, t) : t \in Titles}
    \cup {Response(200, FALSE, FALSE, <<>>), Response(200, TRUE, FALSE, <<>>)}
    \cup {Response(203, TRUE, TRUE, T_PLAIN), Response(204, FALSE, FALSE, <<>>)}
    \cup {Response(st, TRUE, TRUE, T_PLAIN) : st \in {101, 304, 404}}
    \cup {Response(500, FALSE, FALSE, <<>>)}

NoOutcome ==
    [kind |-> "none", status |-> 0, json_ok |-> FALSE, has_title |-> FALSE,
     title |-> <<>>]

DE == <<"d", "e">>

\* a caption track as the service lists it
Track(c, g, t, f) ==
    [language_code |-> c, is_generated |-> g, is_translatable |-> t,
     fetch_ok |-> f, translation_of |-> <<>>]

Tracks ==
    {Track(c, g, t, f) :
        c \in {EN, DE}, g \in BOOLEAN, t \in BOOLEAN, f \in BOOLEAN}

\* a TranscriptList holds one track per language and kind, and enumerates the
\* manually created tracks before the generated ones
IsTranscriptList(ts) ==
    \A i, j \in 1..Len(ts) :
        i < j =>
            /\ ~(ts[i].language_code = ts[j].language_code
                 /\ ts[i].is_generated = ts[j].is_generated)
            /\ ~(ts[i].is_generated /\ ~ts[j].is_generated)

TranscriptLists(n) ==
    {ts \in UNION {[1..k -> Tracks] : k \in 0..n} : IsTranscriptList(ts)}

\* ytt.list(video_id) raised (transcripts disabled, video unavailable, ...)
ListFailed == [list_ok |-> FALSE, tracks |-> <<>>]

AllWorlds ==
    {ListFailed}
    \cup {[list_ok |-> TRUE, tracks |-> ts] : ts \in TranscriptLists(MaxTracks)}

World(ts) == [list_ok |-> TRUE, tracks |-> ts]

MainWorlds ==
    { ListFailed,
      World(<<>>),
      World(<<Track(EN, FALSE, TRUE, TRUE), Track(EN, TRUE, TRUE, TRUE)>>),
      World(<<Track(DE, FALSE, TRUE, TRUE), Track(EN, TRUE, TRUE, TRUE)>>),
      World(<<Track(DE, FALSE, TRUE, TRUE)>>),
      World(<<Track(DE, FALSE, FALSE, TRUE)>>),
      World(<<Track(EN, FALSE, TRUE, FALSE), Track(EN, TRUE, TRUE, TRUE)>>),
      World(<<Track(DE, TRUE, TRUE, TRUE)>>) }

NoWorld == [list_ok |-> FALSE, tracks |-> <<>>]

TextBlock(text) == [type |-> "text", text |-> text]

ToolUseBlock == [type |-> "tool_use", text |-> ""]

\* outcomes of client.messages.create
CompletionOutcomes ==
    { [kind |-> "error", content |-> <<>>],
      [kind |-> "response", content |-> <<>>],
      [kind |-> "response", content |-> <<ToolUseBlock>>],
      [kind |-> "response", content |-> <<TextBlock("TLDR one")>>],
      [kind |-> "response",
       content |-> <<TextBlock("TLDR two"), TextBlock("more")>>] }

\* outcomes of the PUT: a transport error or the response's status
PutOutcomes ==
    {[kind |-> "error", status |-> 0]}
    \cup {[kind |-> "response", status |-> st] :
             st \in {101, 199, 200, 201, 204, 299, 300, 304, 404, 500}}

NoPut == [kind |-> "none", status |-> 0]

-----------------------------------------------------------------------------
(* The process *)

\* an uncaught exception: the interpreter prints a traceback and exits 1
Traceback == <<"Traceback (most recent call last)", <<>>>>

\* parser.parse_args(), line 154: -h/--help prints the help and exits 0; a
\* missing or extra positional argument prints the usage and exits 2
ParseArgs ==
    /\ pc = "parse_args"
    /\ started' = Append(started, pc)
    /\ IF argv.help
       THEN /\ stdout' = Append(stdout, "usage: yt-summarize.py [-h] [--no-obsidian] url ...")
            /\ pc' = "exit"
            /\ exit_code' = 0
            /\ UNCHANGED <<args, stderr, returned>>
       ELSE IF Len(argv.positionals) # 1
       THEN /\ stderr' = Append(stderr, <<"usage: yt-summarize.py [-h] [--no-obsidian] url", <<>>>>)
            /\ pc' = "exit"
            /\ exit_code' = 2
            /\ UNCHANGED <<args, stdout, returned>>
       ELSE LET ns == [url |-> argv.positionals[1],
                       no_obsidian |-> argv.no_obsidian]
            IN  /\ args' = ns
                /\ returned' = Append(returned, pc)
                /\ pc' = After(pc, ns)
                /\ exit_code' = CodeAt(After(pc, ns))
                /\ UNCHANGED <<stdout, stderr>>
    /\ UNCHANGED <<argv, env, video_id, title, transcript, summary, calls,
                   oembed, youtube, selected, completion_request,
                   put_request, put_outcome>>

\* video_id = extract_video_id(args.url); print(...), lines 156-157
ExtractVideoId ==
    /\ pc = "extract_video_id"
    /\ started' = Append(started, pc)
    /\ LET r == extract_video_id(args.url)
       IN  IF r.ok
           THEN /\ video_id' = r.id
                /\ returned' = Append(returned, pc)
                /\ stderr' = Append(stderr, <<"Fetching transcript for video", r.id>>)
                /\ pc' = After(pc, args)
                /\ exit_code' = CodeAt(After(pc, args))
           ELSE /\ stderr' = Append(stderr, <<"Error: Could not extract video ID from", args.url>>)
                /\ pc' = "exit"
                /\ exit_code' = 1
                /\ UNCHANGED <<video_id, returned>>
    /\ UNCHANGED <<argv, env, args, title, transcript, summary, stdout, calls,
                   oembed, youtube, selected, completion_request,
                   put_request, put_outcome>>

\* title = fetch_video_title(video_id); print(...), lines 159-160
FetchVideoTitle(outcomes) ==
    /\ pc = "fetch_video_title"
    /\ started' = Append(started, pc)
    /\ \E o \in outcomes :
          /\ oembed' = o
          /\ calls' = Append(calls, "oembed_get")
          /\ title' = fetch_video_title(video_id, o)
          /\ stderr' = Append(stderr, <<"Video title", fetch_video_title(video_id, o)>>)
    /\ returned' = Append(returned, pc)
    /\ pc' = After(pc, args)
    /\ exit_code' = CodeAt(After(pc, args))
    /\ UNCHANGED <<argv, env, args, video_id, transcript, summary, stdout,
                   youtube, selected, completion_request, put_request,
                   put_outcome>>

\* transcript = fetch_transcript(video_id); print(...), lines 162-163
FetchTranscript(worlds) ==
    /\ pc = "fetch_transcript"
    /\ started' = Append(started, pc)
    /\ \E w \in worlds :
          LET r == fetch_transcript(w)
          IN  /\ youtube' = w
              /\ calls' = calls \o <<"yt_list">>
                          \o (IF fetch_attempted(w) THEN <<"yt_fetch">> ELSE <<>>)
              /\ selected' = IF w.list_ok THEN select_transcript(w.tracks)
                             ELSE NoTrack
              /\ IF r.ok
                 THEN /\ transcript' = pack(r.text)
                      /\ returned' = Append(returned, pc)
                      /\ stderr' = Append(stderr, <<"Transcript fetched, chars", Len(r.text)>>)
                      /\ pc' = After(pc, args)
                      /\ exit_code' = CodeAt(After(pc, args))
                 ELSE /\ stderr' = Append(stderr, <<"Error fetching transcript", <<>>>>)
                      /\ pc' = "exit"
                      /\ exit_code' = 1
                      /\ UNCHANGED <<transcript, returned>>
    /\ UNCHANGED <<argv, env, args, video_id, title, summary, stdout, oembed,
                   completion_request, put_request, put_outcome>>

\* summary = summarize(transcript), line 165; no handler around the call
Summarize(outcomes) ==
    /\ pc = "summarize"
    /\ started' = Append(started, pc)
    /\ completion_request' = pack(truncate(unpack(transcript)))
    /\ calls' = Append(calls, "completion")
    /\ \E o \in outcomes :
          LET r == first_text(o)
          IN  IF r.ok
              THEN /\ summary' = r.text
                   /\ returned' = Append(returned, pc)
                   /\ pc' = After(pc, args)
                   /\ exit_code' = CodeAt(After(pc, args))
                   /\ UNCHANGED stderr
              ELSE /\ stderr' = Append(stderr, Traceback)
                   /\ pc' = "exit"
                   /\ exit_code' = 1
                   /\ UNCHANGED <<summary, returned>>
    /\ UNCHANGED <<argv, env, args, video_id, title, transcript, stdout,
                   oembed, youtube, selected, put_request, put_outcome>>

\* print(summary), line 166
PrintSummary ==
    /\ pc = "print_summary"
    /\ started' = Append(started, pc)
    /\ stdout' = Append(stdout, summary)
    /\ returned' = Append(returned, pc)
    /\ pc' = After(pc, args)
    /\ exit_code' = CodeAt(After(pc, args))
    /\ UNCHANGED <<argv, env, args, video_id, title, transcript, summary,
                   stderr, calls, oembed, youtube, selected,
                   completion_request, put_request, put_outcome>>

\* send_to_obsidian(title, video_id, summary), line 169
SendToObsidian(outcomes) ==
    /\ pc = "send_to_obsidian"
    /\ started' = Append(started, pc)
    /\ IF getenv(env.api_key, <<>>) = <<>>           \* if not api_key
       THEN /\ stderr' = Append(stderr, <<"Error: OBSIDIAN_REST_API_KEY environment variable not set.", <<>>>>)
            /\ pc' = "exit"
            /\ exit_code' = 1
            /\ UNCHANGED <<returned, calls, put_request, put_outcome>>
       ELSE IF ~is_int(getenv(env.port, DEFAULT_PORT))  \* int(...): ValueError
       THEN /\ stderr' = Append(stderr, Traceback)
            /\ pc' = "exit"
            /\ exit_code' = 1
            /\ UNCHANGED <<returned, calls, put_request, put_outcome>>
       ELSE \E o \in outcomes :
               LET req == put_request_for(env, title, video_id, summary)
               IN  /\ put_request' = req
                   /\ put_outcome' = o
                   /\ calls' = Append(calls, "put")
                   /\ IF urlopen_returns(o)
                      THEN /\ stderr' = IF o.status < 300
                                        THEN Append(stderr, <<"Saved to Obsidian", req.path>>)
                                        ELSE stderr
                           /\ returned' = Append(returned, pc)
                           /\ pc' = After(pc, args)
                           /\ exit_code' = CodeAt(After(pc, args))
                      ELSE /\ stderr' = Append(stderr, <<"Error sending to Obsidian", <<>>>>)
                           /\ pc' = "exit"
                           /\ exit_code' = 1
                           /\ UNCHANGED returned
    /\ UNCHANGED <<argv, env, args, video_id, title, transcript, summary,
                   stdout, oembed, youtube, selected, completion_request>>

\* the process as the interpreter starts it
Init ==
    /\ argv \in Argvs
    /\ env \in Envs
    /\ args = [url |-> <<>>, no_obsidian |-> FALSE]
    /\ pc = main_body[1]
    /\ exit_code = -1
    /\ video_id = <<>>
    /\ title = <<>>
    /\ transcript = <<>>
    /\ summary = ""
    /\ stdout = <<>>
    /\ stderr = <<>>
    /\ started = <<>>
    /\ returned = <<>>
    /\ calls = <<>>
    /\ oembed = NoOutcome
    /\ youtube = NoWorld
    /\ selected = NoTrack
    /\ completion_request = <<>>
    /\ put_request = NoRequest
    /\ put_outcome = NoPut

Next ==
    \/ ParseArgs
    \/ ExtractVideoId
    \/ FetchVideoTitle(OembedOutcomes)
    \/ FetchTranscript(MainWorlds)
    \/ Summarize(CompletionOutcomes)
    \/ PrintSummary
    \/ SendToObsidian(PutOutcomes)

Spec == Init /\ [][Next]_vars

-----------------------------------------------------------------------------
(* extract_video_id on many inputs *)

HTTPS == <<"h", "t", "t", "p", "s", ":", "/", "/">>

WATCH_FEATURE_V == YOUTUBE_WATCH \o <<"f", "e", "a", "t", "u", "r", "e", "=", "s", "h", "a", "r", "e", "&">> \o V_EQ

PLAYLIST == <<"y", "o", "u", "t", "u", "b", "e", ".", "c", "o", "m", "/", "p", "l", "a", "y", "l", "i", "s", "t", "?", "l", "i", "s", "t", "=">>

VIMEO == <<"v", "i", "m", "e", "o", ".", "c", "o", "m", "/">>

ID_SHORT == <<"d", "Q", "w", "4", "w", "9", "W", "g", "X", "c">>

ID_BAD == <<"d", "Q", "w", "4", "w", "!", "W", "g", "X", "c", "Q">>

TAIL_T == <<"&", "t", "=", "4", "2">>

TAIL_V == <<"&">> \o V_EQ \o ID_B

TAIL_REF == <<"?", "r", "e", "f", "=">> \o YOUTU_BE \o ID_B

TAIL_EMBED == <<"&", "u", "=">> \o YOUTUBE_EMBED \o ID_B

Prefixes == {<<>>, HTTPS, HTTPS_WWW}

\* what precedes the identifier in each supported URL shape, with the index
\* of the pattern written for that shape
Shapes ==
    { [lead |-> YOUTU_BE, pattern |-> 1],
      [lead |-> WATCH_V, pattern |-> 2],
      [lead |-> WATCH_FEATURE_V, pattern |-> 2],
      [lead |-> YOUTUBE_EMBED, pattern |-> 3],
      [lead |-> YOUTUBE_V, pattern |-> 4],
      [lead |-> YOUTUBE_SHORTS, pattern |-> 5] }

OtherLeads == {<<>>, PLAYLIST, VIMEO}

ValidIds == {ID_A, ID_B}

\* tails that hold no further identifier
PlainTails == {<<>>, TAIL_T, <<"X">>, <<"\n">>}

\* tails that embed ID_B in another URL shape
ShapedTails ==
    { [tail |-> TAIL_REF, pattern |-> 1], [tail |-> TAIL_EMBED, pattern |-> 3] }

ExtractUrls ==
    {p \o l \o i \o t :
        p \in Prefixes,
        l \in {sh.lead : sh \in Shapes} \cup OtherLeads,
        i \in ValidIds \cup {ID_SHORT, ID_BAD},
        t \in PlainTails \cup {TAIL_V} \cup {st.tail : st \in ShapedTails}}

\* main() about to call extract_video_id
InitExtract ==
    /\ args \in [url : ExtractUrls, no_obsidian : {FALSE}]
    /\ argv = [help |-> FALSE, positionals |-> <<args.url>>,
               no_obsidian |-> FALSE]
    /\ env = [api_key |-> Unset, port |-> Unset, folder |-> Unset]
    /\ pc = "extract_video_id"
    /\ exit_code = -1
    /\ video_id = <<>>
    /\ title = <<>>
    /\ transcript = <<>>
    /\ summary = ""
    /\ stdout = <<>>
    /\ stderr = <<>>
    /\ started = <<"parse_args">>
    /\ returned = <<"parse_args">>
    /\ calls = <<>>
    /\ oembed = NoOutcome
    /\ youtube = NoWorld
    /\ selected = NoTrack
    /\ completion_request = <<>>
    /\ put_request = NoRequest
    /\ put_outcome = NoPut

NextExtract == ExtractVideoId

SpecExtract == InitExtract /\ [][NextExtract]_vars

-----------------------------------------------------------------------------
(* fetch_transcript on every enumeration of caption tracks *)

\* main() about to call fetch_transcript
InitTranscript ==
    /\ args = [url |-> ID_B, no_obsidian |-> FALSE]
    /\ argv = [help |-> FALSE, positionals |-> <<ID_B>>, no_obsidian |-> FALSE]
    /\ env = [api_key |-> Unset, port |-> Unset, folder |-> Unset]
    /\ pc = "fetch_transcript"
    /\ exit_code = -1
    /\ video_id = ID_B
    /\ title = ID_B
    /\ transcript = <<>>
    /\ summary = ""
    /\ stdout = <<>>
    /\ stderr = << <<"Fetching transcript for video", ID_B>>,
                   <<"Video title", ID_B>> >>
    /\ started = <<"parse_args", "extract_video_id", "fetch_video_title">>
    /\ returned = <<"parse_args", "extract_video_id", "fetch_video_title">>
    /\ calls = <<"oembed_get">>
    /\ oembed = TransportError
    /\ youtube = NoWorld
    /\ selected = NoTrack
    /\ completion_request = <<>>
    /\ put_request = NoRequest
    /\ put_outcome = NoPut

NextTranscript == FetchTranscript(AllWorlds)

SpecTranscript == InitTranscript /\ [][NextTranscript]_vars

-----------------------------------------------------------------------------
(* summarize on transcripts around the character budget *)

\* 150,000 characters: one kind of character throughout ("plain"), or with
\* the characters around position max_chars different from each other and
\* from the rest ("marked", "lines")
LongRuns(kind) ==
    IF kind = "plain" THEN << <<"a", max_chars + (max_chars \div 2)>> >>
    ELSE << <<"s", 1>>, <<" ", max_chars - 3>>, <<"x", 1>>, <<"y", 1>>,
            <<"z", 1>>,
            <<IF kind = "marked" THEN "b" ELSE "\n", (max_chars \div 2) - 1>> >>

\* the first n characters of such a text
LongText(n, kind) == SubSeq(unpack(LongRuns(kind)), 1, n)

LongLengths ==
    {0, 1, 2, max_chars \div 2, max_chars + (max_chars \div 2)}
    \cup {n \in (max_chars - Slack)..(max_chars + Slack) : TRUE}

LongTranscripts ==
    {LongText(n, kind) : n \in LongLengths,
                         kind \in {"plain", "marked", "lines"}}

\* main() about to call summarize on a video whose manual English track is
\* one of the long texts
InitSummarize ==
    /\ transcript \in {pack(t) : t \in LongTranscripts}
    /\ args = [url |-> ID_B, no_obsidian |-> FALSE]
    /\ argv = [help |-> FALSE, positionals |-> <<ID_B>>, no_obsidian |-> FALSE]
    /\ env = [api_key |-> Unset, port |-> Unset, folder |-> Unset]
    /\ pc = "summarize"
    /\ exit_code = -1
    /\ video_id = ID_B
    /\ title = ID_B
    /\ summary = ""
    /\ stdout = <<>>
    /\ stderr = << <<"Fetching transcript for video", ID_B>>,
                   <<"Video title", ID_B>>,
                   <<"Transcript fetched, chars", Len(unpack(transcript))>> >>
    /\ started = <<"parse_args", "extract_video_id", "fetch_video_title",
                   "fetch_transcript">>
    /\ returned = <<"parse_args", "extract_video_id", "fetch_video_title",
                    "fetch_transcript">>
    /\ calls = <<"oembed_get", "yt_list", "yt_fetch">>
    /\ oembed = TransportError
    /\ youtube = World(<<Track(EN, FALSE, TRUE, TRUE)>>)
    /\ selected = [ok |-> TRUE, how |-> "manual", index |-> 1]
    /\ completion_request = <<>>
    /\ put_request = NoRequest
    /\ put_outcome = NoPut

NextSummarize == Summarize(CompletionOutcomes)

SpecSummarize == InitSummarize /\ [][NextSummarize]_vars

-----------------------------------------------------------------------------
(* Vocabulary of the properties *)

Has(seq, x) == \E i \in 1..Len(seq) : seq[i] = x

Count(seq, x) == Cardinality({i \in 1..Len(seq) : seq[i] = x})

\* the function was called and returned normally to main()
Succeeded(f) == Has(returned, f)

Exited == pc = "exit"

PutDone == put_outcome.kind # "none"

SavedDiagnostic == Has(stderr, <<"Saved to Obsidian", put_request.path>>)

PutErrorDiagnostic == Has(stderr, <<"Error sending to Obsidian", <<>>>>)

-----------------------------------------------------------------------------
(* C1 *)

\* C1 as stated: after the PUT, a response status below 300 means success
\* (the "Saved to Obsidian" diagnostic with the note path, exit status 0) and
\* every other status or a transport error means failure (a diagnostic on the
\* error stream, non-zero exit status).
C1_Below300IsSuccess ==
    PutDone =>
        IF put_outcome.kind = "response" /\ put_outcome.status < 300
        THEN SavedDiagnostic /\ Succeeded("send_to_obsidian") /\ exit_code = 0
        ELSE PutErrorDiagnostic /\ ~SavedDiagnostic /\ exit_code = 1

\* C1 amended: after the PUT, a response status from 200 to 299 means success
\* (the "Saved to Obsidian" diagnostic with the note path, exit status 0) and
\* every other status or a transport error means failure (a diagnostic on the
\* error stream, exit status 1).
C1_Only2xxIsSuccess ==
    PutDone =>
        IF /\ put_outcome.kind = "response"
           /\ put_outcome.status >= 200
           /\ put_outcome.status < 300
        THEN SavedDiagnostic /\ Succeeded("send_to_obsidian") /\ exit_code = 0
        ELSE PutErrorDiagnostic /\ ~SavedDiagnostic /\ exit_code = 1

\* a PUT answered 299 was reported as saved
C1_Witness ==
    /\ put_outcome = [kind |-> "response", status |-> 299]
    /\ SavedDiagnostic
    /\ exit_code = 0

-----------------------------------------------------------------------------
(* C2 *)

\* the four stages the exit status answers for; publishing only without
\* --no-obsidian
AllStagesSucceeded ==
    /\ Succeeded("extract_video_id")
    /\ Succeeded("fetch_transcript")
    /\ Succeeded("summarize")
    /\ ~argv.no_obsidian =>
          /\ Succeeded("send_to_obsidian")
          /\ put_outcome.kind = "response"
          /\ put_outcome.status \in 200..299

\* the metadata request did not yield a title
TitleFetchFailed == oembed.kind # "none" /\ title = video_id

\* C2 as stated: in every run of main, the exit status is 0 exactly when
\* identifier resolution, transcript fetching, summarization and (without
\* --no-obsidian) publishing all succeeded.
C2_ExitZeroIffAllStages ==
    Exited => (exit_code = 0 <=> AllStagesSucceeded)

\* C2 amended: in every run of main whose command line argparse accepts (one
\* positional argument, no -h/--help), the exit status is 0 exactly when
\* identifier resolution, transcript fetching, summarization and (without
\* --no-obsidian) publishing all succeeded, whether or not the title fetch
\* failed.
C2_ExitZeroIffAllStagesOnceParsed ==
    (Exited /\ Succeeded("parse_args")) =>
        /\ exit_code = 0 <=> AllStagesSucceeded
        /\ exit_code \in {0, 1}

\* a run whose title fetch failed and that still ended with status 0 after
\* publishing
C2_Witness ==
    /\ Exited
    /\ TitleFetchFailed
    /\ oembed.kind = "error"
    /\ ~argv.no_obsidian
    /\ Succeeded("send_to_obsidian")
    /\ exit_code = 0

-----------------------------------------------------------------------------
(* C3 *)

\* C3: once the summarizer has returned and main has moved on to the note
\* publisher (or ended), the summary is on standard output; so it is there
\* whenever the publisher has been started, however the publisher ends.
C3_SummaryPrintedBeforePublish ==
    /\ Has(started, "send_to_obsidian") =>
          /\ Succeeded("summarize")
          /\ Succeeded("print_summary")
          /\ stdout = <<summary>>
    /\ (Succeeded("summarize") /\ pc \in {"send_to_obsidian", "exit"}) =>
          stdout = <<summary>>

\* the publisher failed on a 500 and the summary is on standard output
C3_Witness ==
    /\ Exited
    /\ exit_code = 1
    /\ put_outcome = [kind |-> "response", status |-> 500]
    /\ summary = "TLDR two"
    /\ stdout = <<"TLDR two">>

-----------------------------------------------------------------------------
(* C4 *)

KeyPresent == env.api_key.set /\ env.api_key.value # <<>>

MissingKeyDiagnostic ==
    Has(stderr, <<"Error: OBSIDIAN_REST_API_KEY environment variable not set.", <<>>>>)

\* C4: a PUT is issued only without --no-obsidian and with the credential
\* present.  With the flag, a run whose earlier stages succeeded prints the
\* summary, issues no PUT and exits 0.  With publishing enabled and the
\* credential missing, the publisher fails (diagnostic, exit status 1)
\* without a PUT.
C4_PutOnlyWhenEnabledAndKeyed ==
    /\ Has(calls, "put") => (~args.no_obsidian /\ KeyPresent)
    /\ PutDone => Has(calls, "put")
    /\ (Exited /\ args.no_obsidian /\ Succeeded("summarize")) =>
          /\ stdout = <<summary>>
          /\ ~Has(started, "send_to_obsidian")
          /\ ~Has(calls, "put")
          /\ exit_code = 0
    /\ (Has(started, "send_to_obsidian") /\ ~KeyPresent) =>
          /\ Exited
          /\ exit_code = 1
          /\ MissingKeyDiagnostic
          /\ ~Has(calls, "put")
          /\ ~PutDone

\* the publisher was started with an empty credential and failed with no PUT
C4_Witness ==
    /\ Has(started, "send_to_obsidian")
    /\ env.api_key = Set(<<>>)
    /\ exit_code = 1
    /\ ~Has(calls, "put")

-----------------------------------------------------------------------------
(* C5 *)

TitleStageDone == oembed.kind # "none"

\* the title stage returned to main, which went on to the transcript stage
ContinuedToTranscript ==
    /\ Succeeded("fetch_video_title")
    /\ pc = "fetch_transcript" \/ Has(started, "fetch_transcript")
    /\ pc = "fetch_transcript" => exit_code = -1

\* C5 as stated: the title stage never ends the process, and on a network
\* error, a status other than 200, malformed JSON or a missing title field
\* the title is the video identifier.
C5_Non200FallsBack ==
    TitleStageDone =>
        /\ ContinuedToTranscript
        /\ ( \/ oembed.kind = "error"
             \/ oembed.status # 200
             \/ ~oembed.json_ok
             \/ ~oembed.has_title ) => title = video_id

\* C5 amended: the title stage never ends the process, and on a network
\* error, a status outside 200..299, malformed JSON or a missing title field
\* the title is the video identifier.
C5_Non2xxFallsBack ==
    TitleStageDone =>
        /\ ContinuedToTranscript
        /\ ( \/ oembed.kind = "error"
             \/ oembed.status < 200
             \/ oembed.status > 299
             \/ ~oembed.json_ok
             \/ ~oembed.has_title ) => title = video_id

\* a 200 answer without a title field left the identifier as the title
C5_Witness ==
    /\ oembed = Response(200, TRUE, FALSE, <<>>)
    /\ title = video_id
    /\ pc = "fetch_transcript"

-----------------------------------------------------------------------------
(* C6 *)

TranscriptStageDone == Has(started, "fetch_transcript")

ManualEnglish ==
    {i \in 1..Len(youtube.tracks) :
        /\ youtube.tracks[i].language_code = <<"e", "n">>
        /\ ~youtube.tracks[i].is_generated}

GeneratedEnglish ==
    {i \in 1..Len(youtube.tracks) :
        /\ youtube.tracks[i].language_code = <<"e", "n">>
        /\ youtube.tracks[i].is_generated}

\* the track the stated priority picks: [how, index], index 0 for none
PriorityChoice ==
    IF ManualEnglish # {} THEN [how |-> "manual", index |-> Min(ManualEnglish)]
    ELSE IF GeneratedEnglish # {}
    THEN [how |-> "generated", index |-> Min(GeneratedEnglish)]
    ELSE IF Len(youtube.tracks) > 0 THEN [how |-> "translated", index |-> 1]
    ELSE [how |-> "none", index |-> 0]

\* the snippet texts the chosen track delivers, in order
ChosenTexts ==
    LET track == youtube.tracks[PriorityChoice.index]
        said == SnippetsOf(track.language_code, track.is_generated)
    IN  [i \in 1..Len(said) |->
            IF PriorityChoice.how = "translated"
            THEN <<"[", "e", "n", "]">> \o said[i].text
            ELSE said[i].text]

RECURSIVE OffsetOf(_, _)
\* the number of characters that precede text k once texts are joined
OffsetOf(texts, k) ==
    IF k = 1 THEN 0 ELSE OffsetOf(texts, k - 1) + Len(texts[k - 1]) + 1

\* `text` is the texts in order with one space between neighbours
IsSpaceJoined(text, texts) ==
    /\ Len(text) = IF Len(texts) = 0 THEN 0
                   ELSE OffsetOf(texts, Len(texts)) + Len(texts[Len(texts)])
    /\ \A k \in 1..Len(texts) :
          /\ \A c \in 1..Len(texts[k]) :
                text[OffsetOf(texts, k) + c] = texts[k][c]
          /\ k > 1 => text[OffsetOf(texts, k)] = " "

\* a track can be settled on: the listing answered, a track exists and, where
\* it has to be translated, the translation is granted
ChoiceSelectable ==
    /\ youtube.list_ok
    /\ PriorityChoice.how # "none"
    /\ PriorityChoice.how = "translated" =>
          youtube.tracks[PriorityChoice.index].is_translatable

\* the stated conditions under which the operation succeeds
ChoiceUsable ==
    /\ ChoiceSelectable
    /\ youtube.tracks[PriorityChoice.index].fetch_ok

\* C6: fetch_transcript settles on the manual English track, else the
\* generated English track, else the first enumerated track translated to
\* English; with no track, a failed translation or a failed fetch it fails
\* (diagnostic, exit status 1) after one listing and at most one fetch;
\* otherwise the transcript is the fetched texts in order joined by single
\* spaces.
C6_TrackPriorityAndJoin ==
    TranscriptStageDone =>
        /\ Count(calls, "yt_list") = 1
        /\ IF ChoiceSelectable
           THEN /\ selected.ok
                /\ selected.how = PriorityChoice.how
                /\ selected.index = PriorityChoice.index
                /\ Count(calls, "yt_fetch") = 1
           ELSE /\ ~selected.ok
                /\ Count(calls, "yt_fetch") = 0
        /\ IF ChoiceUsable
           THEN /\ Succeeded("fetch_transcript")
                /\ IsSpaceJoined(unpack(transcript), ChosenTexts)
                /\ exit_code = -1
                /\ pc = "summarize"
           ELSE /\ ~Succeeded("fetch_transcript")
                /\ Has(stderr, <<"Error fetching transcript", <<>>>>)
                /\ Exited
                /\ exit_code = 1

\* a manual and a generated English track were both there: the manual one
\* was fetched and joined
C6_Witness ==
    /\ Len(youtube.tracks) >= 2
    /\ ManualEnglish # {}
    /\ GeneratedEnglish # {}
    /\ selected.how = "manual"
    /\ unpack(transcript) = <<"H", "e", "l", "l", "o", " ", "w", "o", "r", "l", "d", " ", "!">>

-----------------------------------------------------------------------------
(* C7 *)

ExtractDone == Has(started, "extract_video_id")

ExtractFailed ==
    /\ Exited
    /\ exit_code = 1
    /\ ~Succeeded("extract_video_id")
    /\ Has(stderr, <<"Error: Could not extract video ID from", args.url>>)

ExtractReturned(id) ==
    /\ Succeeded("extract_video_id")
    /\ video_id = id
    /\ exit_code = -1

IsIdToken(text) ==
    /\ Len(text) = 11
    /\ \A i \in 1..Len(text) : text[i] \in IdChars

\* C7: extract_video_id returns an 11-character token over [a-zA-Z0-9_-] or
\* ends the process with status 1 and a diagnostic naming the input.  An
\* input in one of the five URL shapes returns the identifier embedded in
\* it; where two shapes occur, the one whose pattern comes first in the
\* fixed order decides; a bare identifier is returned unchanged; an input in
\* no shape that is no bare identifier fails.
C7_ExtractVideoId ==
    ExtractDone =>
        /\ ExtractFailed \/ (IsIdToken(video_id) /\ ExtractReturned(video_id))
        /\ \A p \in Prefixes, sh \in Shapes, id \in ValidIds :
              /\ \A t \in PlainTails :
                    args.url = p \o sh.lead \o id \o t => ExtractReturned(id)
              /\ \A st \in ShapedTails :
                    args.url = p \o sh.lead \o id \o st.tail =>
                        ExtractReturned(IF st.pattern < sh.pattern
                                        THEN ID_B ELSE id)
        /\ IsIdToken(args.url) => ExtractReturned(args.url)
        /\ \A p \in Prefixes, t \in PlainTails :
              /\ \A l \in OtherLeads \ {<<>>}, id \in ValidIds \cup {ID_BAD} :
                    args.url = p \o l \o id \o t => ExtractFailed
              /\ \A sh \in Shapes :
                    args.url = p \o sh.lead \o ID_BAD \o t => ExtractFailed

\* a shorts URL that also carries a youtu.be link: the youtu.be pattern, the
\* first of the list, decided
C7_Witness ==
    /\ args.url = HTTPS_WWW \o YOUTUBE_SHORTS \o ID_A \o TAIL_REF
    /\ video_id = ID_B
    /\ Succeeded("extract_video_id")

-----------------------------------------------------------------------------
(* C8 *)

CompletionDispatched == Has(calls, "completion")

\* C8: the text embedded in the completion request is the transcript itself
\* up to 100,000 characters, and beyond that its first 100,000 characters
\* followed by "\n[transcript truncated]".
C8_TruncateAtBudget ==
    CompletionDispatched =>
        LET sent == unpack(completion_request)
            whole == unpack(transcript)
        IN  /\ Len(whole) <= 100000 => sent = whole
            /\ Len(whole) > 100000 =>
                  /\ Len(sent) = 100000 + 23
                  /\ \A i \in 1..100000 : sent[i] = whole[i]
                  /\ SubSeq(sent, 100001, 100023)
                        = <<"\n", "[", "t", "r", "a", "n", "s", "c", "r", "i", "p", "t", " ", "t", "r", "u", "n", "c", "a", "t", "e", "d", "]">>
            /\ Len(sent) <= 100000 + 23

\* a transcript of 150,000 characters went out as 100,023
C8_Witness ==
    /\ CompletionDispatched
    /\ Len(unpack(transcript)) = 150000
    /\ Len(unpack(completion_request)) = 100023

-----------------------------------------------------------------------------
(* C9 *)

\* `safe` is `text` with each of \ / : * ? " < > | replaced by a hyphen and
\* the surrounding whitespace cut off
IsSanitized(safe, text) ==
    LET replaced(i) ==
            IF text[i] \in {"\\", "/", ":", "*", "?", "\"", "<", ">", "|"}
            THEN "-" ELSE text[i]
        blank(i) == replaced(i) \in {" ", "\t", "\n", "\r", "\f"}
    IN  \E cut \in 0..Len(text) :
           /\ cut + Len(safe) <= Len(text)
           /\ \A i \in 1..Len(safe) : safe[i] = replaced(cut + i)
           /\ \A i \in 1..cut : blank(i)
           /\ \A i \in (cut + Len(safe) + 1)..Len(text) : blank(i)
           /\ Len(safe) > 0 => (~blank(cut + 1) /\ ~blank(cut + Len(safe)))

\* the note path is <folder>/<stem>.md
PathStem(folder) ==
    SubSeq(put_request.path, Len(folder) + 2, Len(put_request.path) - 3)

\* C9: the note path of the PUT is <folder>/<sanitized title>.md, the folder
\* being OBSIDIAN_SUMMARY_FOLDER or transcripts/videos, and the sanitized
\* title the title with each of \ / : * ? " < > | replaced by a hyphen and
\* then trimmed; so the path is fixed by title and folder.
C9_NotePath ==
    put_request.method = "PUT" =>
        LET folder == IF env.folder.set THEN env.folder.value
                      ELSE <<"t", "r", "a", "n", "s", "c", "r", "i", "p", "t", "s", "/", "v", "i", "d", "e", "o", "s">>
            stem == PathStem(folder)
        IN  /\ Len(put_request.path) >= Len(folder) + 4
            /\ put_request.path = folder \o <<"/">> \o stem \o <<".", "m", "d">>
            /\ IsSanitized(stem, title)
            /\ \A i \in 1..Len(stem) :
                  stem[i] \notin {"\\", "/", ":", "*", "?", "\"", "<", ">", "|"}
            /\ title = T_TEST =>
                  stem = <<"M", "y", "-", " ", "V", "i", "d", "e", "o", "-", " ", "-", "T", "e", "s", "t", "-">>

\* a padded title with a forbidden character went out trimmed and hyphenated
C9_Witness ==
    /\ put_request.method = "PUT"
    /\ title = T_PADDED
    /\ put_request.path = DEFAULT_FOLDER \o <<"/", "a", "-", " ", "b", ".", "m", "d">>

-----------------------------------------------------------------------------
(* C10 *)

\* the five stages in the stated order
StageOrder ==
    << "extract_video_id", "fetch_video_title", "fetch_transcript",
       "summarize", "send_to_obsidian" >>

\* the remote calls in the order of the stages that issue them
CallOrder == <<"oembed_get", "yt_list", "yt_fetch", "completion", "put">>

PlaceIn(order, x) == Min({k \in 1..Len(order) : order[k] = x})

StageStarts == {i \in 1..Len(started) : Has(StageOrder, started[i])}

\* C10: the stages start in the order identifier resolution, metadata fetch,
\* transcript fetch, summarization, note publishing, each at most once and
\* only after every earlier stage has returned; each remote call is issued at
\* most once and in stage order; once a stage has failed no later stage's
\* remote call is issued.
C10_StagesInOrderOnce ==
    /\ \A i, j \in StageStarts :
          i < j => PlaceIn(StageOrder, started[i]) < PlaceIn(StageOrder, started[j])
    /\ \A i \in StageStarts :
          \A k \in 1..(PlaceIn(StageOrder, started[i]) - 1) :
             Succeeded(StageOrder[k])
    /\ \A i \in 1..Len(calls) : Has(CallOrder, calls[i])
    /\ \A i, j \in 1..Len(calls) :
          i < j => PlaceIn(CallOrder, calls[i]) < PlaceIn(CallOrder, calls[j])
    /\ \A k \in 1..Len(StageOrder) :
          (Has(started, StageOrder[k]) /\ ~Succeeded(StageOrder[k]) /\ Exited) =>
             /\ exit_code = 1
             /\ \A m \in (k + 1)..Len(StageOrder) : ~Has(started, StageOrder[m])
    /\ (Exited /\ ~Succeeded("fetch_transcript")) =>
          (~Has(calls, "completion") /\ ~Has(calls, "put"))
    /\ (Exited /\ ~Succeeded("summarize")) => ~Has(calls, "put")

\* a run went through all five stages and issued each remote call once
C10_Witness ==
    /\ Exited
    /\ exit_code = 0
    /\ started = main_body
    /\ calls = CallOrder

====
